---- MODULE Spec2Model ----
(***************************************************************************)
(* Model of ddtrace/_opentelemetry/trace.py: the OpenTelemetry Tracer that *)
(* is backed by the Datadog tracer.                                        *)
(*                                                                         *)
(*   TracerProvider.get_tracer   hands out Tracers sharing one ddtracer    *)
(*   Tracer.start_span           resolves the parent from the active otel  *)
(*                               span, creates a Datadog span, wraps it    *)
(*   Tracer.start_as_current_span  start_span, then opentelemetry's        *)
(*                               use_span around the caller's body         *)
(*                                                                         *)
(* Collaborators that trace.py imports are modelled by their contract:     *)
(* opentelemetry's context (attach/detach by token), get_current_span,     *)
(* use_span, TraceFlags and TraceState; ddtrace's tracer.start_span,       *)
(* context.Context and the otel Span wrapper.                              *)
(***************************************************************************)
EXTENDS Integers, Sequences, FiniteSets, TLC

\* ------------------------------------------------------------------ bounds
\* native spans the Datadog tracer creates in one run
MaxSpans == 3

\* ------------------------------------------------------- values of the API
\* The Datadog tracer singleton (ddtrace.tracer) and a stand-in for "no tracer".
DDTRACER == "ddtrace.tracer"

\* Exceptions a scope body can raise: one deriving from Exception, one deriving
\* from BaseException only (KeyboardInterrupt, GeneratorExit, CancelledError).
NoExc == "none"
Exceptions == {"ValueError", "KeyboardInterrupt"}
UnboundLocalError == "UnboundLocalError"

\* `except Exception` in use_span
IsException(e) == e = "ValueError"

\* TraceFlags objects. bits is the integer value; same tells whether the object
\* is the very object bound to TraceFlags.SAMPLED (the class attribute 0x01).
\* TraceFlags(0x01), as built by SDKs and propagators, is an equal but distinct
\* object.
TraceFlagObjs ==
    {[bits |-> 1, same |-> TRUE]} \cup {[bits |-> b, same |-> FALSE] : b \in {0, 1}}

\* TraceFlags.sampled: bool(self & SAMPLED)
sampled(tf) == tf.bits % 2 = 1

\* TraceState: an ordered mapping of vendor entries; absent models None.
TraceStates ==
    { [absent |-> TRUE,  entries |-> << >>],
      [absent |-> FALSE, entries |-> << >>],
      [absent |-> FALSE, entries |-> << <<"b", "2">>, <<"a", "1">> >>] }

\* bool(ts): None and the empty mapping are falsy
Truthy(ts) == ~ts.absent /\ Len(ts.entries) > 0

\* TraceState.to_header: "k=v" members joined by "," in the mapping's order.
\* A string is modelled as its sequence of tokens.
RECURSIVE to_header_entries(_)
to_header_entries(es) ==
    IF es = << >> THEN << >>
    ELSE LET m == <<es[1][1], "=", es[1][2]>>
         IN  IF Len(es) = 1 THEN m ELSE m \o <<",">> \o to_header_entries(Tail(es))

to_header(ts) == to_header_entries(ts.entries)

W3C_TRACESTATE_KEY == "tracestate"

\* SpanContext of a foreign span: (trace_id, span_id, is_remote, trace_flags,
\* trace_state, is_valid); the two fields start_span discards are left out.
NullSC == [trace_id |-> 0, span_id |-> 0,
           tf |-> [bits |-> 0, same |-> FALSE],
           ts |-> [absent |-> FALSE, entries |-> << >>]]

\* The span contexts foreign spans carry: any flags and trace state under valid
\* ids, and INVALID_SPAN_CONTEXT (zero ids, default flags, no trace state) as
\* carried by a NonRecordingSpan that is not the INVALID_SPAN object itself.
ForeignSpanContexts ==
    { [trace_id |-> 5, span_id |-> 6, tf |-> f, ts |-> s] :
        f \in TraceFlagObjs, s \in TraceStates }
    \cup {NullSC}

\* What the propagation layer can hand back as the current span.
INVALID_SPAN == [kind |-> "invalid", w |-> 0, sc |-> NullSC]
WrapperSpan(w) == [kind |-> "wrapper", w |-> w, sc |-> NullSC]
ForeignSpan(sc) == [kind |-> "foreign", w |-> 0, sc |-> sc]
UnsupportedSpan == [kind |-> "unsupported", w |-> 0, sc |-> NullSC]

\* What tracer.start_span receives as child_of.
NoMeta == {}
ParentNone == [type |-> "none", id |-> 0, trace_id |-> 0, span_id |-> 0,
               sampling_priority |-> 0, meta |-> NoMeta]
ParentSpan(id) == [type |-> "span", id |-> id, trace_id |-> 0, span_id |-> 0,
                   sampling_priority |-> 0, meta |-> NoMeta]

\* ddtrace.context.Context(trace_id, span_id, sampling_priority, meta): meta=None
\* leaves the context without metadata.
Context(trace_id, span_id, sp, meta) ==
    [type |-> "context", id |-> 0, trace_id |-> trace_id, span_id |-> span_id,
     sampling_priority |-> sp, meta |-> meta]

\* -------------------------------------------------------------------- state
VARIABLES
    app,         \* what the application passes in this run (never changes)
    tracers,     \* what get_tracer has returned: (module name asked for, Tracer)
    ddspans,     \* spans created by the Datadog tracer, in creation order
    otelspans,   \* ddtrace._opentelemetry.span.Span wrappers, in creation order
    current,     \* per execution context: the span held by the current otel Context
    scopes,      \* per execution context: the open use_span scopes, innermost last
    last         \* the last call made and what its caller observed

vars == <<app, tracers, ddspans, otelspans, current, scopes, last>>

\* The execution contexts (threads, tasks) of the run, each with its own
\* current otel Context
Ctxs == DOMAIN current

\* app: the span context the application extracted from its carrier (the one
\* foreign span of the run), the kinds of span held by the contexts it passes
\* explicitly, the instrumenting modules it asks Tracers for, and the keyword
\* arguments it passes to start_span and start_as_current_span.
\*
\* The record kept of the last call on a Tracer or a span.
\*   op       "start_span", "start_as_current_span", "end", "exit"
\*   ctx      execution context the call ran in
\*   given    whether an explicit context argument was supplied
\*   supplied the span held by the context supplied (INVALID_SPAN if none was)
\*   curr     what get_current_span returned
\*   logged   whether log.error was called
\*   span     index of the span created / ended / whose scope exited (0: none)
\*   exc      exception raised by the scope body (NoExc: returned normally)
\*   observed exception that left the call (NoExc: none)
\*   steps    teardown steps use_span performed, in order
\*   before   the current span of ctx when the call was made
\*            (on "exit": when the exited scope's call was made)
\*   recording on "exit": whether the span was still recording when the body left
NoCall == [op |-> "init", ctx |-> "none", given |-> FALSE,
           supplied |-> INVALID_SPAN, curr |-> INVALID_SPAN,
           logged |-> FALSE, span |-> 0, exc |-> NoExc, observed |-> NoExc,
           steps |-> << >>, before |-> INVALID_SPAN, recording |-> FALSE]

\* ------------------------------------------------------------ TracerProvider
\* TracerProvider.__init__: self._ddtracer = ddtrace.tracer
provider_ddtracer == DDTRACER

\* Tracer.__init__: self._tracer = datadog_tracer
Tracer(datadog_tracer) == [_tracer |-> datadog_tracer]

\* get_tracer keeping one Datadog tracer per instrumenting module
get_tracer_per_module(instrumenting_module_name, instrumenting_library_version, schema_url) ==
    Tracer(instrumenting_module_name)

\* TracerProvider.get_tracer: the three parameters are not used.
get_tracer(instrumenting_module_name, instrumenting_library_version, schema_url) ==
    Tracer(provider_ddtracer)

ModuleNames == {"flask", "redis"}
OptionalStrings == {"None", "1.0"}

GetTracer ==
    /\ \E n \in app.modules, v \in OptionalStrings, u \in OptionalStrings :
          tracers' = tracers \cup {[name |-> n, tracer |-> get_tracer(n, v, u)]}
    /\ UNCHANGED <<app, ddspans, otelspans, current, scopes, last>>

\* The Tracers the application holds
Held == {p.tracer : p \in tracers}

\* ------------------------------------------------------------- propagation
\* The optional context argument: None, or a Context holding some span.
NoContext == [given |-> FALSE, span |-> INVALID_SPAN]
ContextWith(sp) == [given |-> TRUE, span |-> sp]

\* get_current_span reading one slot shared by every execution context
get_current_span_shared_slot(c, context) ==
    IF context.given THEN context.span ELSE current[CHOOSE x \in Ctxs : TRUE]

\* get_current_span that does not look at its argument
get_current_span_ignores_context(c, context) == current[c]

\* opentelemetry.trace.propagation.get_current_span(context): the span of the
\* given Context, or of the current Context of the calling execution context.
get_current_span(c, context) ==
    IF context.given THEN context.span ELSE current[c]

\* ------------------------------------------------------ ddtrace collaborators
\* ddtrace.Tracer.start_span(name, child_of, activate): a new, unfinished span
\* recording the parent it was given. A root span opens a new trace.
NativeSpan(tracer, child_of, activate, n) ==
    [tracer |-> tracer, parent |-> child_of, activate |-> activate,
     span_id |-> 100 + n,
     trace_id |-> IF child_of.type = "span" THEN ddspans[child_of.id].trace_id
                  ELSE IF child_of.type = "context" /\ child_of.trace_id # 0
                       THEN child_of.trace_id
                  ELSE 100 + n,
     finished |-> FALSE, error |-> FALSE, exc |-> NoExc]

\* ddtrace._opentelemetry.span.Span(dd_span, ..., record_exception,
\* set_status_on_exception): holds its one Datadog span and the two flags.
Span(dd_span, record_exception, set_status_on_exception) ==
    [_ddspan |-> dd_span, _record_exception |-> record_exception,
     _set_status_on_exception |-> set_status_on_exception]

\* Span.get_span_context of a wrapper: read from its Datadog span.
span_get_span_context(w) ==
    [trace_id |-> ddspans[otelspans[w]._ddspan].trace_id,
     span_id |-> ddspans[otelspans[w]._ddspan].span_id,
     tf |-> [bits |-> 1, same |-> FALSE],
     ts |-> [absent |-> FALSE, entries |-> << >>]]

\* Span.is_recording: until the Datadog span is finished
is_recording(dds, w) == ~dds[otelspans[w]._ddspan].finished

\* Span.record_exception, gated by the flag captured at construction
record_exception(dds, w, e) ==
    IF otelspans[w]._record_exception
    THEN [dds EXCEPT ![otelspans[w]._ddspan].exc = e]
    ELSE dds

\* Span.set_status(ERROR), gated by the flag captured at construction
set_status(dds, w) ==
    IF otelspans[w]._set_status_on_exception
    THEN [dds EXCEPT ![otelspans[w]._ddspan].error = TRUE]
    ELSE dds

\* Span.end that flips the finished mark, so that a second end reopens the span
end_reopens(dds, w) == [dds EXCEPT ![otelspans[w]._ddspan].finished = ~@]

\* Span.end: finishes the Datadog span; a finished span stays as it is
end(dds, w) == [dds EXCEPT ![otelspans[w]._ddspan].finished = TRUE]

\* --------------------------------------------------------- Tracer.start_span
\* isinstance(curr_otel_span, Span): a wrapper made by this module
isinstance_Span(curr) == curr.kind = "wrapper"

\* isinstance(curr_otel_span, OtelSpan): wrappers subclass OtelSpan too
isinstance_OtelSpan(curr) == curr.kind \in {"wrapper", "foreign", "invalid"}

\* curr_otel_span.get_span_context()
get_span_context(curr) ==
    IF curr.kind = "wrapper" THEN span_get_span_context(curr.w) ELSE curr.sc

\* sp = 1 if tf is TraceFlags.SAMPLED else 0      (an identity test)
sampling_priority(tf) == IF tf.same THEN 1 ELSE 0

\* tracestate_meta without the `if ts` guard: an entry is always written
tracestate_meta_unguarded(ts) == {<<W3C_TRACESTATE_KEY, to_header(ts)>>}

\* meta = {W3C_TRACESTATE_KEY: ts.to_header()} if ts else None
tracestate_meta(ts) ==
    IF Truthy(ts) THEN {<<W3C_TRACESTATE_KEY, to_header(ts)>>} ELSE NoMeta

\* otel_to_dd_context with the first two of the unpacked values exchanged
otel_to_dd_context_swapped(sc) ==
    Context(sc.span_id, sc.trace_id, sampling_priority(sc.tf), tracestate_meta(sc.ts))

\* Lines 90-93: the foreign span's SpanContext as a ddtrace Context
otel_to_dd_context(sc) ==
    Context(sc.trace_id, sc.span_id, sampling_priority(sc.tf), tracestate_meta(sc.ts))

\* resolve_dd_active without the test for the INVALID_SPAN sentinel, which is
\* an OtelSpan and so is converted from its (all-zero) span context
resolve_dd_active_no_sentinel(curr) ==
    IF isinstance_Span(curr)
    THEN [bound |-> TRUE, logged |-> FALSE,
          dd_active |-> ParentSpan(otelspans[curr.w]._ddspan)]
    ELSE IF isinstance_OtelSpan(curr)
    THEN [bound |-> TRUE, logged |-> FALSE,
          dd_active |-> otel_to_dd_context(get_span_context(curr))]
    ELSE [bound |-> FALSE, logged |-> TRUE, dd_active |-> ParentNone]

\* resolve_dd_active with the wrapper branch lost: a wrapper is handled as if
\* nothing were active
resolve_dd_active_no_wrapper(curr) ==
    IF curr = INVALID_SPAN \/ isinstance_Span(curr)
    THEN [bound |-> TRUE, logged |-> FALSE, dd_active |-> ParentNone]
    ELSE IF isinstance_OtelSpan(curr)
    THEN [bound |-> TRUE, logged |-> FALSE,
          dd_active |-> otel_to_dd_context(get_span_context(curr))]
    ELSE [bound |-> FALSE, logged |-> TRUE, dd_active |-> ParentNone]

\* resolve_dd_active with the two isinstance tests in the other order: a
\* wrapper, being an OtelSpan, is converted from its span context
resolve_dd_active_otel_first(curr) ==
    IF curr = INVALID_SPAN
    THEN [bound |-> TRUE, logged |-> FALSE, dd_active |-> ParentNone]
    ELSE IF isinstance_OtelSpan(curr)
    THEN [bound |-> TRUE, logged |-> FALSE,
          dd_active |-> otel_to_dd_context(get_span_context(curr))]
    ELSE IF isinstance_Span(curr)
    THEN [bound |-> TRUE, logged |-> FALSE,
          dd_active |-> ParentSpan(otelspans[curr.w]._ddspan)]
    ELSE [bound |-> FALSE, logged |-> TRUE, dd_active |-> ParentNone]

\* Lines 81-100: the if/elif chain that binds dd_active. bound = FALSE: the
\* branch taken leaves the local dd_active unassigned.
resolve_dd_active(curr) ==
    IF curr = INVALID_SPAN
    THEN [bound |-> TRUE, logged |-> FALSE, dd_active |-> ParentNone]
    ELSE IF isinstance_Span(curr)
    THEN [bound |-> TRUE, logged |-> FALSE,
          dd_active |-> ParentSpan(otelspans[curr.w]._ddspan)]
    ELSE IF isinstance_OtelSpan(curr)
    THEN [bound |-> TRUE, logged |-> FALSE,
          dd_active |-> otel_to_dd_context(get_span_context(curr))]
    ELSE [bound |-> FALSE, logged |-> TRUE, dd_active |-> ParentNone]

\* start_span returning a wrapper around the Datadog span made by the call
\* before, when there is one
start_span_rewraps(t, c, context, record_exc, set_status_on_exc) ==
    LET curr == get_current_span(c, context)
        r    == resolve_dd_active(curr)
        n    == Len(ddspans) + 1
    IN  IF r.bound
        THEN [raised |-> NoExc, curr |-> curr, logged |-> r.logged, span |-> n,
              ddspans |-> Append(ddspans,
                                 NativeSpan(t._tracer, r.dd_active, FALSE, n)),
              otelspans |-> Append(otelspans,
                                   Span(IF n > 1 THEN n - 1 ELSE n,
                                        record_exc, set_status_on_exc))]
        ELSE [raised |-> UnboundLocalError, curr |-> curr, logged |-> r.logged,
              span |-> 0, ddspans |-> ddspans, otelspans |-> otelspans]

\* Tracer.start_span as a whole: what it raises, and the spans afterwards.
\* Reading the unassigned dd_active at line 102 raises UnboundLocalError
\* before the Datadog tracer is called.
start_span(t, c, context, record_exc, set_status_on_exc) ==
    LET curr == get_current_span(c, context)
        r    == resolve_dd_active(curr)
        n    == Len(ddspans) + 1
    IN  IF r.bound
        THEN [raised |-> NoExc, curr |-> curr, logged |-> r.logged, span |-> n,
              ddspans |-> Append(ddspans,
                                 NativeSpan(t._tracer, r.dd_active, FALSE, n)),
              otelspans |-> Append(otelspans, Span(n, record_exc, set_status_on_exc))]
        ELSE [raised |-> UnboundLocalError, curr |-> curr, logged |-> r.logged,
              span |-> 0, ddspans |-> ddspans, otelspans |-> otelspans]

\* Contexts a caller can pass: none, or, of the kinds this application uses,
\* an empty one, one holding an object that is no otel span, one holding the
\* span extracted from the carrier, or one holding a span of this module.
SuppliedContexts ==
    {NoContext}
    \cup {ContextWith(sp) : sp \in
            {x \in {INVALID_SPAN, UnsupportedSpan, ForeignSpan(app.remote)}
                     \cup {WrapperSpan(w) : w \in 1..Len(otelspans)} :
                x.kind \in app.explicit}}

StartSpan(c) ==
    /\ Len(ddspans) < MaxSpans
    /\ \E t \in Held, context \in SuppliedContexts :
          LET r == start_span(t, c, context, app.record_exception,
                                app.set_status_on_exception)
          IN  /\ ddspans' = r.ddspans
              /\ otelspans' = r.otelspans
              /\ last' = [NoCall EXCEPT !.op = "start_span", !.ctx = c,
                                        !.given = context.given,
                                        !.supplied = context.span, !.curr = r.curr,
                                        !.logged = r.logged, !.span = r.span,
                                        !.observed = r.raised,
                                        !.before = current[c]]
    /\ UNCHANGED <<app, tracers, current, scopes>>

\* ------------------------------------------------- opentelemetry's use_span
\* use_span(span, end_on_exit, record_exception, set_status_on_exception):
\*
\*     try:
\*         token = context_api.attach(context_api.set_value(_SPAN_KEY, span))
\*         try:
\*             yield span
\*         finally:
\*             context_api.detach(token)
\*     except Exception as exc:
\*         if isinstance(span, Span) and span.is_recording():
\*             if record_exception: span.record_exception(exc)
\*             if set_status_on_exception: span.set_status(Status(ERROR, ...))
\*         raise
\*     finally:
\*         if end_on_exit: span.end()
\*
\* An open scope: the span made current, the token that restores the previous
\* current span, and the three flags. before notes, for the record of the
\* exit, the current span at the time start_as_current_span was called.
Scope(w, token, end_on_exit, record_exc, set_status_on_exc, before) ==
    [span |-> w, token |-> token, end_on_exit |-> end_on_exit,
     record_exception |-> record_exc,
     set_status_on_exception |-> set_status_on_exc, before |-> before]

\* use_span_steps with the except clause doing nothing but re-raise
use_span_steps_no_bookkeeping(f, exc, dds) ==
    <<"detach">> \o (IF f.end_on_exit THEN <<"end">> ELSE << >>)

\* use_span_steps ending the span whatever end_on_exit says
use_span_steps_always_end(f, exc, dds) ==
    <<"detach">>
    \o (IF exc # NoExc /\ IsException(exc) /\ is_recording(dds, f.span)
        THEN (IF f.record_exception THEN <<"record_exception">> ELSE << >>)
             \o (IF f.set_status_on_exception THEN <<"set_status">> ELSE << >>)
        ELSE << >>)
    \o <<"end">>

\* use_span_steps setting the status before recording the exception
use_span_steps_status_first(f, exc, dds) ==
    <<"detach">>
    \o (IF exc # NoExc /\ IsException(exc) /\ is_recording(dds, f.span)
        THEN (IF f.set_status_on_exception THEN <<"set_status">> ELSE << >>)
             \o (IF f.record_exception THEN <<"record_exception">> ELSE << >>)
        ELSE << >>)
    \o (IF f.end_on_exit THEN <<"end">> ELSE << >>)

\* The steps use_span performs once the body has left with exc (NoExc: normally)
use_span_steps(f, exc, dds) ==
    <<"detach">>
    \o (IF exc # NoExc /\ IsException(exc) /\ is_recording(dds, f.span)
        THEN (IF f.record_exception THEN <<"record_exception">> ELSE << >>)
             \o (IF f.set_status_on_exception THEN <<"set_status">> ELSE << >>)
        ELSE << >>)
    \o (IF f.end_on_exit THEN <<"end">> ELSE << >>)

\* use_span_step without the inner finally: the token is never used
use_span_step_no_detach(step, f, exc, st) ==
    CASE step = "detach"           -> st
      [] step = "record_exception" ->
            [st EXCEPT !.ddspans = record_exception(st.ddspans, f.span, exc)]
      [] step = "set_status"       -> [st EXCEPT !.ddspans = set_status(st.ddspans, f.span)]
      [] step = "end"              -> [st EXCEPT !.ddspans = end(st.ddspans, f.span)]

\* One teardown step, on the pair (current span of the context, Datadog spans)
use_span_step(step, f, exc, st) ==
    CASE step = "detach"           -> [st EXCEPT !.current = f.token]
      [] step = "record_exception" ->
            [st EXCEPT !.ddspans = record_exception(st.ddspans, f.span, exc)]
      [] step = "set_status"       -> [st EXCEPT !.ddspans = set_status(st.ddspans, f.span)]
      [] step = "end"              -> [st EXCEPT !.ddspans = end(st.ddspans, f.span)]

RECURSIVE use_span_run(_, _, _, _)
use_span_run(steps, f, exc, st) ==
    IF steps = << >> THEN st
    ELSE use_span_run(Tail(steps), f, exc, use_span_step(Head(steps), f, exc, st))

\* use_span with an except clause that does not re-raise
use_span_swallows(exc) == NoExc

\* `raise` in the except clause, and no clause at all for other exceptions:
\* the exception that entered use_span is the one that leaves it.
use_span_raises(exc) == exc

\* ---------------------------------------------- Tracer.start_as_current_span
\* start_as_current_span entering the scope before the span exists: when
\* start_span raises, the current span has already been replaced
StartAsCurrentSpan_activates_first(c) ==
    /\ Len(ddspans) < MaxSpans
    /\ \E t \in Held, context \in SuppliedContexts :
          LET r == start_span(t, c, context, app.record_exception,
                                app.set_status_on_exception)
          IN  /\ ddspans' = r.ddspans
              /\ otelspans' = r.otelspans
              /\ IF r.raised = NoExc
                 THEN /\ scopes' = [scopes EXCEPT
                             ![c] = Append(@, Scope(r.span, current[c], app.end_on_exit,
                                                    app.record_exception,
                                                    app.set_status_on_exception,
                                                    current[c]))]
                      /\ current' = [current EXCEPT ![c] = WrapperSpan(r.span)]
                 ELSE /\ scopes' = scopes
                      /\ current' = [current EXCEPT ![c] = INVALID_SPAN]
              /\ last' = [NoCall EXCEPT !.op = "start_as_current_span", !.ctx = c,
                                        !.given = context.given,
                                        !.supplied = context.span, !.curr = r.curr,
                                        !.logged = r.logged, !.span = r.span,
                                        !.observed = r.raised,
                                        !.before = current[c]]
    /\ UNCHANGED <<app, tracers>>

\* Lines 128-144 up to the yield: start_span, then use_span makes the span
\* current. An exception from start_span leaves before use_span is reached.
StartAsCurrentSpan(c) ==
    /\ Len(ddspans) < MaxSpans
    /\ \E t \in Held, context \in SuppliedContexts :
          LET r == start_span(t, c, context, app.record_exception,
                                app.set_status_on_exception)
          IN  /\ ddspans' = r.ddspans
              /\ otelspans' = r.otelspans
              /\ IF r.raised = NoExc
                 THEN /\ scopes' = [scopes EXCEPT
                             ![c] = Append(@, Scope(r.span, current[c], app.end_on_exit,
                                                    app.record_exception,
                                                    app.set_status_on_exception,
                                                    current[c]))]
                      /\ current' = [current EXCEPT ![c] = WrapperSpan(r.span)]
                 ELSE UNCHANGED <<scopes, current>>
              /\ last' = [NoCall EXCEPT !.op = "start_as_current_span", !.ctx = c,
                                        !.given = context.given,
                                        !.supplied = context.span, !.curr = r.curr,
                                        !.logged = r.logged, !.span = r.span,
                                        !.observed = r.raised,
                                        !.before = current[c]]
    /\ UNCHANGED <<app, tracers>>

\* The body of the innermost scope of context c leaves, normally or with an
\* exception: the rest of use_span runs and the generator re-raises.
ExitScope(c) ==
    /\ scopes[c] # << >>
    /\ \E exc \in {NoExc} \cup Exceptions :
          LET f     == scopes[c][Len(scopes[c])]
              steps == use_span_steps(f, exc, ddspans)
              st    == use_span_run(steps, f, exc,
                                    [current |-> current[c], ddspans |-> ddspans])
          IN  /\ current' = [current EXCEPT ![c] = st.current]
              /\ ddspans' = st.ddspans
              /\ scopes' = [scopes EXCEPT ![c] = SubSeq(@, 1, Len(@) - 1)]
              /\ last' = [NoCall EXCEPT !.op = "exit", !.ctx = c, !.span = f.span,
                                        !.exc = exc, !.observed = use_span_raises(exc),
                                        !.steps = steps, !.before = f.before,
                                        !.recording = is_recording(ddspans, f.span)]
    /\ UNCHANGED <<app, tracers, otelspans>>

\* Code holding a span calls end() on it.
EndSpan ==
    /\ \E w \in 1..Len(otelspans) :
          /\ ddspans' = end(ddspans, w)
          /\ last' = [NoCall EXCEPT !.op = "end", !.span = w]
    /\ UNCHANGED <<app, tracers, otelspans, current, scopes>>

\* ------------------------------------------------------------ specification
\* The keyword arguments' defaults (lines 74-75 and 121-123)
DefaultFlags == [record_exception |-> TRUE, set_status_on_exception |-> TRUE,
                 end_on_exit |-> TRUE]

AllFlags == [record_exception : BOOLEAN, set_status_on_exception : BOOLEAN,
             end_on_exit : BOOLEAN]

\* A sampled remote span with a two-member tracestate
SampledRemote ==
    [trace_id |-> 5, span_id |-> 6, tf |-> [bits |-> 1, same |-> TRUE],
     ts |-> [absent |-> FALSE, entries |-> << <<"b", "2">>, <<"a", "1">> >>]]

ContextKinds == {"invalid", "unsupported", "foreign", "wrapper"}

App(sc, flags, kinds, modules) ==
    [remote |-> sc, explicit |-> kinds, modules |-> modules,
     record_exception |-> flags.record_exception,
     set_status_on_exception |-> flags.set_status_on_exception,
     end_on_exit |-> flags.end_on_exit]

Fresh(ctxs) ==
    /\ tracers = {}
    /\ ddspans = << >>
    /\ otelspans = << >>
    /\ current = [c \in ctxs |-> INVALID_SPAN]
    /\ scopes = [c \in ctxs |-> << >>]
    /\ last = NoCall

\* One execution context; explicit contexts of every kind; the default flags
Init ==
    /\ app = App(SampledRemote, DefaultFlags, ContextKinds, {"flask"})
    /\ Fresh({"ctx1"})

\* One execution context; every combination of the three flags; no explicit
\* context
InitFlags ==
    /\ app \in {App(SampledRemote, f, {}, {"flask"}) : f \in AllFlags}
    /\ Fresh({"ctx1"})

\* One execution context; every foreign span context, passed explicitly; the
\* default flags
InitAdapter ==
    /\ app \in {App(sc, DefaultFlags, {"foreign"}, {"flask"}) :
                    sc \in ForeignSpanContexts}
    /\ Fresh({"ctx1"})

\* One execution context; Tracers asked for under every module name; no
\* explicit context; the default flags
InitProvider ==
    /\ app = App(SampledRemote, DefaultFlags, {}, ModuleNames)
    /\ Fresh({"ctx1"})

\* Two execution contexts; no explicit context; the default flags
InitContexts ==
    /\ app = App(SampledRemote, DefaultFlags, {}, {"flask"})
    /\ Fresh({"ctx1", "ctx2"})

Next ==
    \/ GetTracer
    \/ \E c \in Ctxs : StartSpan(c)
    \/ \E c \in Ctxs : StartAsCurrentSpan(c)
    \/ \E c \in Ctxs : ExitScope(c)
    \/ EndSpan

Spec == Init /\ [][Next]_vars

SpecFlags == InitFlags /\ [][Next]_vars

SpecAdapter == InitAdapter /\ [][Next]_vars

SpecProvider == InitProvider /\ [][Next]_vars

SpecContexts == InitContexts /\ [][Next]_vars

\* ================================================================== claims
Started == last.op \in {"start_span", "start_as_current_span"}
Created == Started /\ last.observed = NoExc
Exited  == last.op = "exit"

\* The parent the Datadog tracer was given for the span the last call created
NewParent == ddspans[last.span].parent

\* C1: when the active span is neither INVALID_SPAN, nor a wrapper of this
\* module, nor an otel span, start_span does not raise: it logs an error, calls
\* the Datadog tracer with no parent and returns a wrapper around a root span.
C1_UnsupportedSpanGivesRootSpan ==
    (Started /\ last.curr.kind = "unsupported")
        => /\ last.observed = NoExc
           /\ last.logged
           /\ last.span # 0
           /\ NewParent = ParentNone

\* C2: whatever exception the body of a start_as_current_span scope raises, and
\* whatever the three flags are, that same exception is what the caller sees.
C2_ExceptionReachesCallerUnchanged ==
    (Exited /\ last.exc # NoExc) => last.observed = last.exc

C2_Witness ==
    /\ Exited
    /\ last.exc = "ValueError"
    /\ last.steps = <<"detach", "record_exception", "set_status", "end">>
    /\ last.observed = "ValueError"

\* C3: after a scope exits, normally or by an exception, the current span of
\* the execution context is the one that was current just before the scope was
\* entered, at any nesting depth.
C3_ExitRestoresPreviousSpan ==
    Exited => current[last.ctx] = last.before

\* an inner scope left by an exception, giving the outer scope's span back
C3_Witness ==
    /\ Exited
    /\ last.exc # NoExc
    /\ last.before.kind = "wrapper"
    /\ current[last.ctx] = last.before
    /\ Len(scopes[last.ctx]) = 1

\* C4: a span started by start_as_current_span without an explicit context has
\* as parent the span of the innermost scope open in its execution context at
\* the time of the call (none: a root span), also after inner scopes have
\* exited.
C4_ParentIsInnermostOpenScope ==
    (Created /\ last.op = "start_as_current_span" /\ ~last.given)
        => LET s == scopes[last.ctx]
               n == Len(s)
           IN  /\ s[n].span = last.span
               /\ NewParent = IF n = 1 THEN ParentNone
                              ELSE ParentSpan(otelspans[s[n - 1].span]._ddspan)

\* span 3 started as a sibling of span 2, after span 2's scope inside span 1's
\* scope has exited
C4_Witness ==
    /\ Created /\ last.op = "start_as_current_span" /\ ~last.given
    /\ last.span = 3
    /\ ddspans[2].parent = ParentSpan(1)
    /\ ddspans[3].parent = ParentSpan(1)
    /\ Len(scopes[last.ctx]) = 2
    /\ scopes[last.ctx][1].span = 1

\* C5: when the active span is a wrapper of this module, the Datadog tracer is
\* given that wrapper's own Datadog span as parent, never a Context rebuilt
\* from its ids.
C5_WrapperParentsByIdentity ==
    (Created /\ last.curr.kind = "wrapper")
        => NewParent = ParentSpan(otelspans[last.curr.w]._ddspan)

C5_Witness ==
    /\ Created
    /\ last.curr.kind = "wrapper"
    /\ NewParent.type = "span"
    /\ NewParent.id = otelspans[last.curr.w]._ddspan

\* C6: for a foreign active span, the Context built by start_span has sampling
\* priority 1 exactly when the span's sampled flag is set, and 0 exactly when
\* it is not.
C6_SamplingPriorityFollowsSampledFlag ==
    (Created /\ last.curr.kind = "foreign")
        => NewParent.sampling_priority = IF sampled(last.curr.sc.tf) THEN 1 ELSE 0

\* C7: for a foreign active span with a vendor trace state, the Context's
\* metadata is the single entry tracestate -> the trace state's header string;
\* without one there is no metadata entry, and the conversion does not fail.
CarriesTraceState(ts) == ~ts.absent /\ ts.entries # << >>

C7_TraceStateCopiedVerbatim ==
    (Started /\ last.curr.kind = "foreign")
        => /\ last.observed = NoExc
           /\ NewParent.type = "context"
           /\ NewParent.meta =
                 IF CarriesTraceState(last.curr.sc.ts)
                 THEN {<<W3C_TRACESTATE_KEY, to_header(last.curr.sc.ts)>>}
                 ELSE {}

\* the header "b=2,a=1" arrives member by member in its original order
C7_Witness ==
    /\ Created
    /\ last.curr.kind = "foreign"
    /\ last.curr.sc.ts.entries = << <<"b", "2">>, <<"a", "1">> >>
    /\ NewParent.meta = {<<"tracestate", <<"b", "=", "2", ",", "a", "=", "1">>>>}

\* the span whose scope the last call exited
ExitedSpan == ddspans[last.span]

\* C8 as stated: whenever the body raises, the exception is attached exactly
\* if record_exception and the status is error exactly if
\* set_status_on_exception; a normal return causes neither.
C8_AnyRaiseIsRecordedPerFlags ==
    Exited =>
        /\ last.exc # NoExc =>
              /\ (ExitedSpan.exc # NoExc) <=> app.record_exception
              /\ ExitedSpan.error <=> app.set_status_on_exception
        /\ last.exc = NoExc => (ExitedSpan.exc = NoExc /\ ~ExitedSpan.error)

\* C8 (amended): when the body raises an exception deriving from Exception
\* while the span has not been ended, that exception is attached exactly if
\* record_exception and the status is error exactly if
\* set_status_on_exception; an exception deriving from BaseException only
\* (KeyboardInterrupt, GeneratorExit) and a normal return cause neither.
C8_ExceptionIsRecordedPerFlags ==
    Exited =>
        /\ (IsException(last.exc) /\ last.recording) =>
              /\ ExitedSpan.exc = IF app.record_exception THEN last.exc ELSE NoExc
              /\ ExitedSpan.error <=> app.set_status_on_exception
        /\ (last.exc = NoExc \/ ~IsException(last.exc)) =>
              (ExitedSpan.exc = NoExc /\ ~ExitedSpan.error)

C8_Witness ==
    /\ Exited
    /\ last.exc = "ValueError"
    /\ last.recording
    /\ app.record_exception /\ ~app.set_status_on_exception
    /\ ExitedSpan.exc = "ValueError"
    /\ ~ExitedSpan.error

\* The step exits the scope of span i, opened with end_on_exit = eoe
ExitStepOf(i, eoe) ==
    \E c \in Ctxs :
        /\ Len(scopes'[c]) < Len(scopes[c])
        /\ scopes[c][Len(scopes[c])].span = i
        /\ scopes[c][Len(scopes[c])].end_on_exit = eoe

\* C9: every exit of a scope opened with end_on_exit true leaves its Datadog
\* span finished; a span becomes finished only by such an exit or by an
\* explicit end(), so an exit with end_on_exit false does not finish it.
C9_EndOnExitDecidesFinish ==
    [][\A i \in 1..Len(ddspans) :
          /\ ExitStepOf(i, TRUE) => ddspans'[i].finished
          /\ (~ddspans[i].finished /\ ddspans'[i].finished)
                => \/ ExitStepOf(i, TRUE)
                   \/ (last'.op = "end" /\ last'.span = i)]_vars

\* a scope opened with end_on_exit false was left by an exception and its span
\* is still unfinished
C9_Witness ==
    /\ Exited
    /\ last.exc # NoExc
    /\ ~app.end_on_exit
    /\ ~ExitedSpan.finished

Range(seq) == {seq[i] : i \in 1..Len(seq)}

\* C10 as stated: when the body raises, the teardown is always exception
\* recording, status setting, ending the span, restoring the previous span.
C10_FourStepsInStatedOrder ==
    (Exited /\ last.exc # NoExc)
        => last.steps = <<"record_exception", "set_status", "end", "detach">>

\* position of a step in the order use_span performs them
StepOrder(step) ==
    CASE step = "detach" -> 1
      [] step = "record_exception" -> 2
      [] step = "set_status" -> 3
      [] step = "end" -> 4

\* C10 (amended): when the body raises, the previous span is restored first,
\* always; then, only for an exception deriving from Exception on a span not
\* yet ended, the exception is recorded if record_exception and after that the
\* status is set if set_status_on_exception; last the span is ended if
\* end_on_exit. No step happens twice or out of this order.
C10_TeardownOrder ==
    (Exited /\ last.exc # NoExc) =>
        LET steps == last.steps
            bookkeeping == IsException(last.exc) /\ last.recording
        IN  /\ steps # << >> /\ steps[1] = "detach"
            /\ \A i, j \in 1..Len(steps) :
                  i < j => StepOrder(steps[i]) < StepOrder(steps[j])
            /\ "record_exception" \in Range(steps)
                  <=> (bookkeeping /\ app.record_exception)
            /\ "set_status" \in Range(steps)
                  <=> (bookkeeping /\ app.set_status_on_exception)
            /\ "end" \in Range(steps) <=> app.end_on_exit
            /\ current[last.ctx] = last.before
            /\ last.observed = last.exc

C10_Witness ==
    /\ Exited
    /\ last.exc = "ValueError"
    /\ last.steps = <<"detach", "record_exception", "set_status", "end">>
    /\ ExitedSpan.finished /\ ExitedSpan.error /\ ExitedSpan.exc = "ValueError"

\* C11: every start_span call creates exactly one Datadog span (and one wrapper
\* around it) through the Datadog tracer, asks for it with activate=False,
\* touches no earlier span, and leaves the current span and the open scopes of
\* every execution context as they were.
C11_StartSpanCreatesOneInactiveSpan ==
    [][(last'.op = "start_span" /\ last' # last)
          => /\ Len(ddspans') = Len(ddspans) + 1
             /\ Len(otelspans') = Len(otelspans) + 1
             /\ last'.span = Len(ddspans')
             /\ SubSeq(ddspans', 1, Len(ddspans)) = ddspans
             /\ ~ddspans'[Len(ddspans')].activate
             /\ current' = current
             /\ scopes' = scopes]_vars

\* C12: when get_current_span reports the INVALID_SPAN sentinel (nothing is
\* active, or the context supplied is empty), start_span does not raise, gives
\* the Datadog tracer no parent, and the span returned is the root of a trace
\* of its own.
C12_InvalidSpanGivesRootSpan ==
    (Started /\ last.curr = INVALID_SPAN)
        => /\ last.observed = NoExc
           /\ ~last.logged
           /\ NewParent = ParentNone
           /\ \A i \in 1..Len(ddspans) :
                 i # last.span => ddspans[i].trace_id # ddspans[last.span].trace_id

C12_Witness ==
    /\ last.op = "start_span"
    /\ ~last.given
    /\ last.curr = INVALID_SPAN
    /\ last.span = 2
    /\ NewParent = ParentNone
    /\ ddspans[1].trace_id # ddspans[2].trace_id

\* C13: whatever module names, versions and schema urls get_tracer is called
\* with, every Tracer returned holds the provider's Datadog tracer, the Tracers
\* returned are indistinguishable, and every span is made by that one tracer.
C13_EveryTracerSharesTheProvidersTracer ==
    /\ \A p \in tracers : p.tracer._tracer = provider_ddtracer
    /\ \A p, q \in tracers : p.tracer = q.tracer
    /\ \A i \in 1..Len(ddspans) : ddspans[i].tracer = provider_ddtracer

C13_Witness ==
    /\ {p.name : p \in tracers} = ModuleNames
    /\ Cardinality(Held) = 1
    /\ Len(ddspans) = 2
    /\ ddspans[1].tracer = ddspans[2].tracer

\* The step calls end() on wrapper w: explicitly, or as the last step of the
\* exit of w's scope
EndCalledOn(w) ==
    \/ last'.op = "end" /\ last'.span = w
    \/ ExitStepOf(w, TRUE) /\ "end" \in Range(last'.steps)

\* C14: end() on a wrapper whose Datadog span is already finished (the body
\* ended the span, then the scope ends it again because end_on_exit is true)
\* changes nothing about that span and raises nothing: the exit shows the
\* caller what the body raised and no more.
C14_EndIsIdempotent ==
    [][\A w \in 1..Len(otelspans) :
          (EndCalledOn(w) /\ ddspans[otelspans[w]._ddspan].finished)
              => /\ ddspans' = ddspans
                 /\ last'.op = "exit" => last'.observed = last'.exc]_vars

C14_Witness ==
    /\ Exited
    /\ app.end_on_exit
    /\ ~last.recording
    /\ last.steps = <<"detach", "end">>
    /\ last.exc = NoExc /\ last.observed = NoExc
    /\ ExitedSpan.finished

\* C15: when the active span is a foreign otel span, the Datadog tracer is
\* given a Context value built for the call, not a reference to a Datadog
\* span, and its trace id and span id are those of the foreign span's
\* SpanContext.
C15_ForeignParentIsContextWithSameIds ==
    (Started /\ last.curr.kind = "foreign")
        => /\ last.observed = NoExc
           /\ NewParent.type = "context"
           /\ NewParent.id = 0
           /\ NewParent.trace_id = last.curr.sc.trace_id
           /\ NewParent.span_id = last.curr.sc.span_id

C15_Witness ==
    /\ Created
    /\ last.curr.kind = "foreign"
    /\ last.curr.sc.trace_id = 5 /\ last.curr.sc.span_id = 6
    /\ NewParent.type = "context"
    /\ NewParent.trace_id = 5 /\ NewParent.span_id = 6

\* The span a call's parent is to be resolved from: the one held by the
\* context supplied, or without one the current span of the calling context
ParentSource == IF last.given THEN last.supplied ELSE last.before

\* C16: with an explicit context the parent is resolved from the span that
\* context holds, whatever span is current in the calling execution context;
\* only without one is it resolved from the current span.
C16_ExplicitContextDecidesParent ==
    /\ Started => last.curr = ParentSource
    /\ Created =>
          /\ ParentSource = INVALID_SPAN => NewParent = ParentNone
          /\ ParentSource.kind = "wrapper"
                => NewParent = ParentSpan(otelspans[ParentSource.w]._ddspan)
          /\ ParentSource.kind = "foreign"
                => /\ NewParent.type = "context"
                   /\ NewParent.trace_id = ParentSource.sc.trace_id

C16_Witness ==
    /\ Created
    /\ last.given
    /\ last.supplied = WrapperSpan(1)
    /\ last.before = WrapperSpan(2)
    /\ current[last.ctx].kind = "wrapper"
    /\ NewParent = ParentSpan(1)

\* C17: every wrapper references one existing Datadog span, and no two
\* wrappers reference the same one.
C17_WrappersAndSpansOneToOne ==
    /\ \A w \in 1..Len(otelspans) : otelspans[w]._ddspan \in 1..Len(ddspans)
    /\ \A v, w \in 1..Len(otelspans) :
          otelspans[v]._ddspan = otelspans[w]._ddspan => v = w

C17_Witness ==
    /\ Len(otelspans) = 3
    /\ Cardinality({otelspans[w]._ddspan : w \in 1..3}) = 3
    /\ Len(scopes["ctx1"]) = 1

\* C18: when start_span raises inside start_as_current_span, nothing has been
\* activated: no span and no wrapper is added, no scope is entered (so no body
\* runs and no exit follows), and every execution context keeps its current
\* span.
C18_FailedStartActivatesNothing ==
    [][(last'.op = "start_as_current_span" /\ last'.observed # NoExc)
          => /\ last'.span = 0
             /\ ddspans' = ddspans
             /\ otelspans' = otelspans
             /\ scopes' = scopes
             /\ current' = current]_vars

C18_Witness ==
    /\ last.op = "start_as_current_span"
    /\ last.observed = UnboundLocalError
    /\ last.before = WrapperSpan(1)
    /\ current[last.ctx] = WrapperSpan(1)
    /\ Len(scopes[last.ctx]) = 1
    /\ Len(ddspans) = 1

\* A span context is valid when neither of its ids is zero
is_valid(sc) == sc.trace_id # 0 /\ sc.span_id # 0

\* C19: the Datadog tracer is never given a Context whose trace id or span id
\* is zero: an active otel span with an invalid span context, whether or not
\* it is the INVALID_SPAN object, counts as no active span, and the span
\* created has no parent.
C19_InvalidSpanContextGivesRootSpan ==
    Created =>
        /\ NewParent.type = "context"
              => NewParent.trace_id # 0 /\ NewParent.span_id # 0
        /\ (last.curr.kind \in {"invalid", "foreign"} /\ ~is_valid(last.curr.sc))
              => NewParent = ParentNone

\* The Datadog spans whose scopes are open in execution context c
OpenIn(c) == {otelspans[scopes[c][i].span]._ddspan : i \in 1..Len(scopes[c])}

\* C20: with two execution contexts interleaving span starts, scope entries
\* and scope exits, a step of one context leaves the current span and the
\* scopes of the other as they were, and a span started without an explicit
\* context has as parent the span current in its own context (one whose scope
\* is open there), or none when nothing is current there, whatever is
\* current in the other context.
C20_ContextsDoNotInterfere ==
    [][/\ \A c \in Ctxs :
             c # last'.ctx => current'[c] = current[c] /\ scopes'[c] = scopes[c]
       /\ (Len(ddspans') > Len(ddspans) /\ ~last'.given)
             => IF current[last'.ctx].kind = "wrapper"
                THEN /\ ddspans'[last'.span].parent =
                           ParentSpan(otelspans[current[last'.ctx].w]._ddspan)
                     /\ ddspans'[last'.span].parent.id \in OpenIn(last'.ctx)
                ELSE ddspans'[last'.span].parent = ParentNone]_vars

C20_Witness ==
    /\ Ctxs = {"ctx1", "ctx2"}
    /\ last.op = "exit" /\ last.ctx = "ctx1" /\ last.span = 1
    /\ current["ctx1"] = INVALID_SPAN
    /\ current["ctx2"] = WrapperSpan(3)
    /\ OpenIn("ctx2") = {2, 3}
    /\ ddspans[1].parent = ParentNone
    /\ ddspans[2].parent = ParentNone
    /\ ddspans[3].parent = ParentSpan(2)

====
